---- MODULE Spec2Model ----
(***************************************************************************)
(* Speech sequencing engine of littleReader (Web Speech API front end).    *)
(*                                                                         *)
(* The module-level variables of the converter script, the browser's       *)
(* SpeechSynthesis object it drives (utterance queue, paused flag, the     *)
(* events it dispatches) and the pending setTimeout callbacks are the      *)
(* state.  JavaScript runs every handler to completion, so each handler    *)
(* is one atomic action.  A text is a sequence of one-character strings.   *)
(***************************************************************************)
EXTENDS Integers, Sequences, FiniteSets, TLC

(***************************************************************************)
(* Bounds of the model.                                                    *)
(***************************************************************************)
\* utterances in the engine queue plus armed inter-chunk timers
MaxInFlight == 2
\* cancelled utterances whose end/error event is still to be dispatched
MaxCancelled == 1
\* pieces (sentences, tokens, lines) an argument of a text function is made of
MaxPieces == 3

(***************************************************************************)
(* Text helpers.                                                           *)
(***************************************************************************)
Terminators == {".", "!", "?"}
Whitespace == {" ", "\n", "\t"}

Min(a, b) == IF a < b THEN a ELSE b
Max(a, b) == IF a > b THEN a ELSE b

\* least element of a non-empty set of integers
SetMin(c) == CHOOSE j \in c : \A k \in c : j <= k
SetMax(c) == CHOOSE j \in c : \A k \in c : j >= k

\* first position >= i whose character is not in S (Len(s) + 1 if none)
RunEnd(s, i, S) ==
    LET c == {j \in i..Len(s) : s[j] \notin S}
    IN  IF c = {} THEN Len(s) + 1 ELSE SetMin(c)

\* first position >= i whose character is in S (Len(s) + 1 if none)
RunEndNot(s, i, S) ==
    LET c == {j \in i..Len(s) : s[j] \in S}
    IN  IF c = {} THEN Len(s) + 1 ELSE SetMin(c)

\* last position <= i whose character is not white space (0 if none)
LastNonSpace(s, i) ==
    LET c == {j \in 1..i : s[j] \notin Whitespace}
    IN  IF c = {} THEN 0 ELSE SetMax(c)

\* String.prototype.trim
Trim(s) ==
    LET a == RunEnd(s, 1, Whitespace)
        b == LastNonSpace(s, Len(s))
    IN  IF a > b THEN <<>> ELSE SubSeq(s, a, b)

RECURSIVE CollapseFrom(_, _)
\* one step per run of white space
CollapseFrom(s, i) ==
    LET j == RunEndNot(s, i, Whitespace)
    IN  IF j > Len(s) THEN SubSeq(s, i, Len(s))
        ELSE SubSeq(s, i, j - 1) \o <<" ">>
             \o CollapseFrom(s, RunEnd(s, j, Whitespace))

\* s.replace(/\s+/g, ' ')
CollapseSpaces(s) == CollapseFrom(s, 1)

RECURSIVE SpaceAfterFrom(_, _, _)
\* one step per character of S
SpaceAfterFrom(s, i, S) ==
    LET j == RunEndNot(s, i, S)
    IN  IF j > Len(s) THEN SubSeq(s, i, Len(s))
        ELSE SubSeq(s, i, j) \o <<" ">>
             \o SpaceAfterFrom(s, RunEnd(s, j + 1, Whitespace), S)

\* s.replace(/([S])\s*/g, '$1 ')
SpaceAfter(s, S) == SpaceAfterFrom(s, 1, S)

RECURSIVE JoinWithSpace(_)
\* Array.prototype.join(' ')
JoinWithSpace(ss) ==
    IF ss = <<>> THEN <<>>
    ELSE IF Len(ss) = 1 THEN ss[1]
    ELSE ss[1] \o <<" ">> \o JoinWithSpace(Tail(ss))

(***************************************************************************)
(* addNaturalPauses.                                                       *)
(***************************************************************************)
UpperLetters ==
    <<"A", "B", "C", "D", "E", "F", "G", "H", "I", "J", "K", "L", "M", "N", "O", "P", "Q", "R", "S", "T", "U", "V", "W", "X", "Y", "Z">>
LowerLetters ==
    <<"a", "b", "c", "d", "e", "f", "g", "h", "i", "j", "k", "l", "m", "n", "o", "p", "q", "r", "s", "t", "u", "v", "w", "x", "y", "z">>
Digits == {"0", "1", "2", "3", "4", "5", "6", "7", "8", "9"}

Range(f) == {f[x] : x \in DOMAIN f}

\* \w of a JavaScript regular expression
WordChars == Range(UpperLetters) \cup Range(LowerLetters) \cup Digits \cup {"_"}

\* case folding of the "i" flag
ToLower(c) ==
    IF c \in Range(UpperLetters)
    THEN LowerLetters[CHOOSE k \in DOMAIN UpperLetters : UpperLetters[k] = c]
    ELSE c

IsWordAt(s, i) == i >= 1 /\ i <= Len(s) /\ s[i] \in WordChars

\* \b between positions i - 1 and i
WordBoundary(s, i) == IsWordAt(s, i - 1) # IsWordAt(s, i)

\* the phrases of the transitions array, in array order
transitions == <<
    <<"H", "o", "w", "e", "v", "e", "r">>,
    <<"T", "h", "e", "r", "e", "f", "o", "r", "e">>,
    <<"F", "u", "r", "t", "h", "e", "r", "m", "o", "r", "e">>,
    <<"M", "o", "r", "e", "o", "v", "e", "r">>,
    <<"N", "e", "v", "e", "r", "t", "h", "e", "l", "e", "s", "s">>,
    <<"A", "d", "d", "i", "t", "i", "o", "n", "a", "l", "l", "y">>,
    <<"C", "o", "n", "s", "e", "q", "u", "e", "n", "t", "l", "y">>,
    <<"S", "u", "b", "s", "e", "q", "u", "e", "n", "t", "l", "y">>,
    <<"M", "e", "a", "n", "w", "h", "i", "l", "e">>,
    <<"I", "n", " ", "a", "d", "d", "i", "t", "i", "o", "n">>,
    <<"F", "o", "r", " ", "e", "x", "a", "m", "p", "l", "e">>,
    <<"F", "o", "r", " ", "i", "n", "s", "t", "a", "n", "c", "e">>,
    <<"I", "n", " ", "f", "a", "c", "t">>,
    <<"I", "n", " ", "c", "o", "n", "t", "r", "a", "s", "t">>,
    <<"O", "n", " ", "t", "h", "e", " ", "o", "t", "h", "e", "r", " ", "h", "a", "n", "d">>,
    <<"A", "s", " ", "a", " ", "r", "e", "s", "u", "l", "t">>,
    <<"I", "n", " ", "c", "o", "n", "c", "l", "u", "s", "i", "o", "n">>,
    <<"F", "i", "n", "a", "l", "l", "y">> >>

\* new RegExp(`\\b${transition}\\b(?!,)`, 'gi') matches at position i
TransitionMatches(s, i, w) ==
    /\ i + Len(w) - 1 <= Len(s)
    /\ \A k \in 1..Len(w) : ToLower(s[i + k - 1]) = ToLower(w[k])
    /\ WordBoundary(s, i)
    /\ WordBoundary(s, i + Len(w))
    /\ ~(i + Len(w) <= Len(s) /\ s[i + Len(w)] = ",")

\* position of the first match at or after i (0 if none)
NextTransition(s, i, w) ==
    LET c == {j \in i..Len(s) : TransitionMatches(s, j, w)}
    IN  IF c = {} THEN 0 ELSE SetMin(c)

RECURSIVE InsertCommaFrom(_, _, _)
\* enhanced.replace(regex, `${transition},`), one step per match
InsertCommaFrom(s, i, w) ==
    LET j == NextTransition(s, i, w)
    IN  IF j = 0 THEN SubSeq(s, i, Len(s))
        ELSE SubSeq(s, i, j - 1) \o w \o <<",">>
             \o InsertCommaFrom(s, j + Len(w), w)

RECURSIVE ApplyTransitions(_, _)
\* transitions.forEach(...) from entry k on
ApplyTransitions(s, k) ==
    IF k > Len(transitions) \/ Len(s) = 0 THEN s
    ELSE ApplyTransitions(InsertCommaFrom(s, 1, transitions[k]), k + 1)

addNaturalPauses(text) ==
    LET e0 == ApplyTransitions(text, 1)
        e1 == SpaceAfter(e0, Terminators)
        e2 == SpaceAfter(e1, {","})
        e3 == SpaceAfter(e2, {":"})
        e4 == SpaceAfter(e3, {";"})
    IN  Trim(CollapseSpaces(e4))

(***************************************************************************)
(* preprocessText.  A character outside ASCII is written as one token:     *)
(* "POUND" and "EURO" are the pound and euro signs.  "ANY" in a pattern is *)
(* the regular-expression wildcard.                                        *)
(***************************************************************************)
\* the abbreviations object, in property order: <<pattern, expansion>>.  The
\* pattern is '\\b' + abbrev.replace('.', '\\.'): String.replace escapes the
\* first period only, a second one stays a wildcard.
abbreviations == <<
    <<<<"D", "r", ".">>, <<"D", "o", "c", "t", "o", "r">>>>,
    <<<<"M", "r", ".">>, <<"M", "i", "s", "t", "e", "r">>>>,
    <<<<"M", "r", "s", ".">>, <<"M", "i", "s", "s", "u", "s">>>>,
    <<<<"M", "s", ".">>, <<"M", "i", "s", "s">>>>,
    <<<<"P", "r", "o", "f", ".">>, <<"P", "r", "o", "f", "e", "s", "s", "o", "r">>>>,
    <<<<"S", "r", ".">>, <<"S", "e", "n", "i", "o", "r">>>>,
    <<<<"J", "r", ".">>, <<"J", "u", "n", "i", "o", "r">>>>,
    <<<<"S", "t", ".">>, <<"S", "t", "r", "e", "e", "t">>>>,
    <<<<"A", "v", "e", ".">>, <<"A", "v", "e", "n", "u", "e">>>>,
    <<<<"B", "l", "v", "d", ".">>, <<"B", "o", "u", "l", "e", "v", "a", "r", "d">>>>,
    <<<<"R", "d", ".">>, <<"R", "o", "a", "d">>>>,
    <<<<"A", "p", "t", ".">>, <<"A", "p", "a", "r", "t", "m", "e", "n", "t">>>>,
    <<<<"e", "t", "c", ".">>, <<"e", "t", " ", "c", "e", "t", "e", "r", "a">>>>,
    <<<<"v", "s", ".">>, <<"v", "e", "r", "s", "u", "s">>>>,
    <<<<"e", ".", "g", "ANY">>, <<"f", "o", "r", " ", "e", "x", "a", "m", "p", "l", "e">>>>,
    <<<<"i", ".", "e", "ANY">>, <<"t", "h", "a", "t", " ", "i", "s">>>>,
    <<<<"I", "n", "c", ".">>, <<"I", "n", "c", "o", "r", "p", "o", "r", "a", "t", "e", "d">>>>,
    <<<<"C", "o", "r", "p", ".">>, <<"C", "o", "r", "p", "o", "r", "a", "t", "i", "o", "n">>>>,
    <<<<"L", "t", "d", ".">>, <<"L", "i", "m", "i", "t", "e", "d">>>>,
    <<<<"C", "o", ".">>, <<"C", "o", "m", "p", "a", "n", "y">>>> >>

\* the ordinals object: <<digits, word>>
ordinals == <<
    <<<<"1">>, <<"f", "i", "r", "s", "t">>>>,
    <<<<"2">>, <<"s", "e", "c", "o", "n", "d">>>>,
    <<<<"3">>, <<"t", "h", "i", "r", "d">>>>,
    <<<<"4">>, <<"f", "o", "u", "r", "t", "h">>>>,
    <<<<"5">>, <<"f", "i", "f", "t", "h">>>>,
    <<<<"6">>, <<"s", "i", "x", "t", "h">>>>,
    <<<<"7">>, <<"s", "e", "v", "e", "n", "t", "h">>>>,
    <<<<"8">>, <<"e", "i", "g", "h", "t", "h">>>>,
    <<<<"9">>, <<"n", "i", "n", "t", "h">>>>,
    <<<<"1", "0">>, <<"t", "e", "n", "t", "h">>>>,
    <<<<"1", "1">>, <<"e", "l", "e", "v", "e", "n", "t", "h">>>>,
    <<<<"1", "2">>, <<"t", "w", "e", "l", "f", "t", "h">>>>,
    <<<<"1", "3">>, <<"t", "h", "i", "r", "t", "e", "e", "n", "t", "h">>>>,
    <<<<"1", "4">>, <<"f", "o", "u", "r", "t", "e", "e", "n", "t", "h">>>>,
    <<<<"1", "5">>, <<"f", "i", "f", "t", "e", "e", "n", "t", "h">>>>,
    <<<<"1", "6">>, <<"s", "i", "x", "t", "e", "e", "n", "t", "h">>>>,
    <<<<"1", "7">>, <<"s", "e", "v", "e", "n", "t", "e", "e", "n", "t", "h">>>>,
    <<<<"1", "8">>, <<"e", "i", "g", "h", "t", "e", "e", "n", "t", "h">>>>,
    <<<<"1", "9">>, <<"n", "i", "n", "e", "t", "e", "e", "n", "t", "h">>>>,
    <<<<"2", "0">>, <<"t", "w", "e", "n", "t", "i", "e", "t", "h">>>>,
    <<<<"2", "1">>, <<"t", "w", "e", "n", "t", "y", "-", "f", "i", "r", "s", "t">>>>,
    <<<<"2", "2">>, <<"t", "w", "e", "n", "t", "y", "-", "s", "e", "c", "o", "n", "d">>>>,
    <<<<"2", "3">>, <<"t", "w", "e", "n", "t", "y", "-", "t", "h", "i", "r", "d">>>>,
    <<<<"2", "4">>, <<"t", "w", "e", "n", "t", "y", "-", "f", "o", "u", "r", "t", "h">>>>,
    <<<<"2", "5">>, <<"t", "w", "e", "n", "t", "y", "-", "f", "i", "f", "t", "h">>>>,
    <<<<"3", "0">>, <<"t", "h", "i", "r", "t", "i", "e", "t", "h">>>>,
    <<<<"3", "1">>, <<"t", "h", "i", "r", "t", "y", "-", "f", "i", "r", "s", "t">>>> >>

\* the acronyms object, in property order; each is spelled letter by letter
acronyms == <<
    <<"P", "D", "F">>,
    <<"H", "T", "M", "L">>,
    <<"C", "S", "S">>,
    <<"A", "P", "I">>,
    <<"U", "R", "L">>,
    <<"H", "T", "T", "P">>,
    <<"H", "T", "T", "P", "S">>,
    <<"F", "A", "Q">>,
    <<"C", "E", "O">>,
    <<"C", "F", "O">>,
    <<"C", "T", "O">>,
    <<"U", "S", "A">>,
    <<"U", "K">>,
    <<"E", "U">>,
    <<"N", "A", "S", "A">>,
    <<"F", "B", "I">>,
    <<"C", "I", "A">> >>

LineTerminators == {"\n", "\r"}

\* the pattern (literal characters and wildcards) matches at position i
PatternMatches(s, i, pat) ==
    /\ i + Len(pat) - 1 <= Len(s)
    /\ \A k \in 1..Len(pat) :
          IF pat[k] = "ANY" THEN s[i + k - 1] \notin LineTerminators
          ELSE s[i + k - 1] = pat[k]

NextAbbreviation(s, i, pat) ==
    LET c == {j \in i..Len(s) : WordBoundary(s, j) /\ PatternMatches(s, j, pat)}
    IN  IF c = {} THEN 0 ELSE SetMin(c)

RECURSIVE ExpandAbbreviation(_, _, _, _)
\* processed.replace(new RegExp('\\b' + pattern, 'g'), expansion), one step
\* per match
ExpandAbbreviation(s, i, pat, expansion) ==
    LET j == NextAbbreviation(s, i, pat)
    IN  IF j = 0 THEN SubSeq(s, i, Len(s))
        ELSE SubSeq(s, i, j - 1) \o expansion
             \o ExpandAbbreviation(s, j + Len(pat), pat, expansion)

RECURSIVE ExpandAbbreviations(_, _)
\* the for loop over Object.entries(abbreviations), from entry k on
ExpandAbbreviations(s, k) ==
    IF k > Len(abbreviations) \/ Len(s) = 0 THEN s
    ELSE ExpandAbbreviations(
             ExpandAbbreviation(s, 1, abbreviations[k][1], abbreviations[k][2]),
             k + 1)

OrdinalSuffixes == {<<"s", "t">>, <<"n", "d">>, <<"r", "d">>, <<"t", "h">>}

\* ordinals[num] || match
OrdinalWord(num, match) ==
    IF \E k \in DOMAIN ordinals : ordinals[k][1] = num
    THEN ordinals[CHOOSE k \in DOMAIN ordinals : ordinals[k][1] = num][2]
    ELSE match

\* /\b(\d+)(st|nd|rd|th)\b/ matches at position i
OrdinalMatches(s, i) ==
    LET j == RunEnd(s, i, Digits)
    IN  /\ WordBoundary(s, i)
        /\ j > i
        /\ j + 1 <= Len(s)
        /\ SubSeq(s, j, j + 1) \in OrdinalSuffixes
        /\ WordBoundary(s, j + 2)

NextOrdinal(s, i) ==
    LET c == {j \in i..Len(s) : OrdinalMatches(s, j)}
    IN  IF c = {} THEN 0 ELSE SetMin(c)

RECURSIVE ExpandOrdinals(_, _)
\* processed.replace(/\b(\d+)(st|nd|rd|th)\b/g, ...), one step per match
ExpandOrdinals(s, i) ==
    LET a == NextOrdinal(s, i)
        j == RunEnd(s, a, Digits)
    IN  IF a = 0 THEN SubSeq(s, i, Len(s))
        ELSE SubSeq(s, i, a - 1)
             \o OrdinalWord(SubSeq(s, a, j - 1), SubSeq(s, a, j + 1))
             \o ExpandOrdinals(s, j + 2)

NextCurrency(s, i, symbol) ==
    LET c == {j \in i..Len(s) : s[j] = symbol /\ RunEnd(s, j + 1, Digits) > j + 1}
    IN  IF c = {} THEN 0 ELSE SetMin(c)

RECURSIVE ExpandCurrency(_, _, _, _)
\* processed.replace(/<symbol>(\d+)/g, '$1 <name>'), one step per match
ExpandCurrency(s, i, symbol, name) ==
    LET a == NextCurrency(s, i, symbol)
        j == RunEnd(s, a + 1, Digits)
    IN  IF a = 0 THEN SubSeq(s, i, Len(s))
        ELSE SubSeq(s, i, a - 1) \o SubSeq(s, a + 1, j - 1) \o <<" ">> \o name
             \o ExpandCurrency(s, j, symbol, name)

RECURSIVE SpellOut(_)
\* 'PDF' -> 'P D F'
SpellOut(w) ==
    IF Len(w) <= 1 THEN w ELSE <<w[1], " ">> \o SpellOut(Tail(w))

NextAcronym(s, i, w) ==
    LET c == {j \in i..Len(s) : /\ WordBoundary(s, j)
                                /\ PatternMatches(s, j, w)
                                /\ WordBoundary(s, j + Len(w))}
    IN  IF c = {} THEN 0 ELSE SetMin(c)

RECURSIVE ExpandAcronym(_, _, _)
\* processed.replace(new RegExp('\\b' + acronym + '\\b', 'g'), spelled), one
\* step per match
ExpandAcronym(s, i, w) ==
    LET j == NextAcronym(s, i, w)
    IN  IF j = 0 THEN SubSeq(s, i, Len(s))
        ELSE SubSeq(s, i, j - 1) \o SpellOut(w)
             \o ExpandAcronym(s, j + Len(w), w)

RECURSIVE ExpandAcronyms(_, _)
\* the for loop over Object.entries(acronyms), from entry k on
ExpandAcronyms(s, k) ==
    IF k > Len(acronyms) \/ Len(s) = 0 THEN s
    ELSE ExpandAcronyms(ExpandAcronym(s, 1, acronyms[k]), k + 1)

\* processed.replace(/[S]/g, '')
RemoveChars(s, S) ==
    LET Keep(c) == c \notin S
    IN  SelectSeq(s, Keep)

\* first position >= i that starts a run of at least `least` characters c
NextRun(s, i, c, least) ==
    LET r == {j \in i..Len(s) : s[j] = c /\ RunEnd(s, j, {c}) - j >= least}
    IN  IF r = {} THEN 0 ELSE SetMin(r)

RECURSIVE CollapseRuns(_, _, _, _, _)
\* processed.replace(/c{least,}/g, replacement), one step per match
CollapseRuns(s, i, c, least, replacement) ==
    LET j == NextRun(s, i, c, least)
    IN  IF j = 0 THEN SubSeq(s, i, Len(s))
        ELSE SubSeq(s, i, j - 1) \o replacement
             \o CollapseRuns(s, RunEnd(s, j, {c}), c, least, replacement)

\* processed.replace(/_/g, ' ')
UnderscoresToSpaces(s) ==
    [k \in 1..Len(s) |-> IF s[k] = "_" THEN " " ELSE s[k]]

\* the currency rules before the ordinal rule
ConvertNumbersCurrencyFirst(s) ==
    ExpandOrdinals(
        ExpandCurrency(
            ExpandCurrency(
                ExpandCurrency(s, 1, "$", <<"d", "o", "l", "l", "a", "r", "s">>),
                1, "POUND", <<"p", "o", "u", "n", "d", "s">>),
            1, "EURO", <<"e", "u", "r", "o", "s">>),
        1)

\* 2. ordinals and currency
ConvertNumbers(s) ==
    ExpandCurrency(
        ExpandCurrency(
            ExpandCurrency(ExpandOrdinals(s, 1), 1, "$",
                           <<"d", "o", "l", "l", "a", "r", "s">>),
            1, "POUND", <<"p", "o", "u", "n", "d", "s">>),
        1, "EURO", <<"e", "u", "r", "o", "s">>)

\* 4. clean up special characters that confuse TTS
CleanSpecialCharacters(s) ==
    UnderscoresToSpaces(
        CollapseRuns(
            CollapseRuns(
                CollapseRuns(RemoveChars(s, {"~", "^"}), 1, ".", 4,
                             <<".", ".", ".">>),
                1, "!", 2, <<"!">>),
            1, "?", 2, <<"?">>))

preprocessText(text) ==
    Trim(CollapseSpaces(
        CleanSpecialCharacters(
            ExpandAcronyms(ConvertNumbers(ExpandAbbreviations(text, 1)), 1))))

(***************************************************************************)
(* detectFootnotes and insertFootnoteReadings.  "DAGGER", "DDAGGER" and    *)
(* "SECTION" are the dagger, double dagger and section signs, "SUP0" to    *)
(* "SUP9" the superscript digits.                                          *)
(***************************************************************************)
FootnoteSymbols == {"*", "DAGGER", "DDAGGER", "SECTION"}

\* superscriptMap, indexed by digit value + 1
SuperscriptChars ==
    <<"SUP0", "SUP1", "SUP2", "SUP3", "SUP4", "SUP5", "SUP6", "SUP7", "SUP8", "SUP9">>
PlainDigits == <<"0", "1", "2", "3", "4", "5", "6", "7", "8", "9">>

\* ^ under the m flag: start of the text or just after a line terminator
AtLineStart(s, i) == i = 1 \/ (i - 1 <= Len(s) /\ s[i - 1] \in LineTerminators)

\* (\d+|\*|...) followed by \. at position q: position of the period, 0 if none
MarkerPeriod(s, q) ==
    LET d == RunEnd(s, q, Digits)
    IN  IF d > q /\ d <= Len(s) /\ s[d] = "." THEN d
        ELSE IF q + 1 <= Len(s) /\ s[q] \in FootnoteSymbols /\ s[q + 1] = "."
             THEN q + 1
             ELSE 0

\* where the content ([^\n]+) starts after the period at position e: \s+ is
\* greedy and gives characters back only when it reached the end of the text
ContentStart(s, e) ==
    LET b == RunEnd(s, e + 1, Whitespace)
        back == {c \in (e + 2)..Len(s) : s[c] # "\n"}
    IN  IF b = e + 1 THEN 0
        ELSE IF b <= Len(s) THEN b
        ELSE IF back = {} THEN 0 ELSE SetMax(back)

RECURSIVE ContentEnd(_, _)
\* le is the position after the lines matched so far; each further line is
\* \n(?!\d+\.|\*\.|...).+
ContentEnd(s, le) ==
    IF /\ le + 1 <= Len(s)
       /\ s[le] = "\n"
       /\ MarkerPeriod(s, le + 1) = 0
       /\ s[le + 1] \notin LineTerminators
    THEN ContentEnd(s, RunEndNot(s, le + 1, LineTerminators))
    ELSE le

\* footnoteContentPattern matches with match.index = i - 1
ContentMatches(s, i) ==
    /\ AtLineStart(s, i) \/ s[i] = "\n"
    /\ MarkerPeriod(s, RunEnd(s, i, Whitespace)) # 0
    /\ ContentStart(s, MarkerPeriod(s, RunEnd(s, i, Whitespace))) # 0

RECURSIVE FootnoteContents(_, _)
\* the while loop over footnoteContentPattern.exec(text), lastIndex = from - 1
FootnoteContents(s, from) ==
    LET c == {i \in from..Len(s) : ContentMatches(s, i)}
        i == SetMin(c)
        q == RunEnd(s, i, Whitespace)
        e == MarkerPeriod(s, q)
        b == ContentStart(s, e)
        z == ContentEnd(s, RunEndNot(s, b, {"\n"}))
    IN  IF c = {} THEN <<>>
        ELSE <<[marker |-> SubSeq(s, q, e - 1),
                content |-> Trim(SubSeq(s, b, z - 1)),
                index |-> i - 1]>>
             \o FootnoteContents(s, z)

\* the Map built by footnotes.set(marker, content) in array order
FootnoteMapOf(contents) ==
    [m \in {contents[k].marker : k \in DOMAIN contents} |->
        contents[SetMax({k \in DOMAIN contents : contents[k].marker = m})].content]

EmptyMap == [m \in {} |-> <<>>]

detectFootnotes(text) ==
    LET footnoteContents == FootnoteContents(text, 1)
        \* firstFootnoteIndex > textLength * 0.6
        separate == /\ Len(footnoteContents) > 0
                    /\ 10 * footnoteContents[1].index > 6 * Len(text)
    IN  [cleanText |-> IF separate
                       THEN SubSeq(text, 1, footnoteContents[1].index)
                       ELSE text,
         footnotes |-> IF separate THEN FootnoteMapOf(footnoteContents)
                       ELSE EmptyMap]

\* end (exclusive) of the markerPattern match at position i, 0 if none
MarkerMatchEnd(s, i) ==
    LET inner == IF i + 1 <= Len(s) /\ s[i + 1] \in FootnoteSymbols THEN i + 2
                 ELSE IF RunEnd(s, i + 1, Digits) > i + 1
                      THEN RunEnd(s, i + 1, Digits) ELSE 0
        close == IF s[i] = "[" THEN "]" ELSE ")"
        sup == RunEnd(s, i, Range(SuperscriptChars))
    IN  IF s[i] \in {"[", "("} /\ inner # 0 /\ inner <= Len(s) /\ s[inner] = close
        THEN inner + 1
        ELSE IF sup > i THEN sup
        ELSE IF s[i] \in FootnoteSymbols /\ ~IsWordAt(s, i + 1) THEN i + 1
        ELSE 0

\* the marker with a superscript run left as it is written
MarkerOfUnfolded(s, i, z) ==
    IF s[i] \in {"[", "("} THEN SubSeq(s, i + 1, z - 2)
    ELSE SubSeq(s, i, z - 1)

\* bracket || paren || symbol, or the superscript run folded to digits
MarkerOf(s, i, z) ==
    IF s[i] \in {"[", "("} THEN SubSeq(s, i + 1, z - 2)
    ELSE IF s[i] \in Range(SuperscriptChars)
         THEN [k \in 1..(z - i) |->
                  PlainDigits[CHOOSE d \in DOMAIN SuperscriptChars :
                                  SuperscriptChars[d] = s[i + k - 1]]]
         ELSE <<s[i]>>

RECURSIVE InsertReadingsFrom(_, _, _)
\* processedText.replace(markerPattern, ...), one step per match
InsertReadingsFrom(s, i, footnotes) ==
    LET c == {j \in i..Len(s) : MarkerMatchEnd(s, j) # 0}
        j == SetMin(c)
        z == MarkerMatchEnd(s, j)
        marker == MarkerOf(s, j, z)
    IN  IF c = {} THEN SubSeq(s, i, Len(s))
        ELSE SubSeq(s, i, j - 1)
             \o (IF marker \in DOMAIN footnotes
                 THEN <<".", " ", "F", "o", "o", "t", "n", "o", "t", "e", " ">>
                      \o marker \o <<":", " ">> \o footnotes[marker] \o <<".", " ">>
                 ELSE SubSeq(s, j, z - 1))
             \o InsertReadingsFrom(s, z, footnotes)

insertFootnoteReadings(text, footnotes) ==
    IF DOMAIN footnotes = {} THEN text
    ELSE InsertReadingsFrom(text, 1, footnotes)

(***************************************************************************)
(* splitTextIntoChunks.                                                    *)
(***************************************************************************)
RECURSIVE MatchSentences(_, _)
\* enhancedText.match(/[^.!?]+[.!?]+/g), scanning from position pos: a match
\* starts at the first non-terminator and needs a terminator after the run
MatchSentences(s, pos) ==
    LET a == RunEnd(s, pos, Terminators)
        j == RunEndNot(s, a, Terminators)
        k == RunEnd(s, j, Terminators)
    IN  IF a > Len(s) \/ j > Len(s) THEN <<>>
        ELSE <<SubSeq(s, a, k - 1)>> \o MatchSentences(s, k)

RECURSIVE GroupSentencesFlushing(_, _, _, _)
\* the loop flushing on the sentence count only, and what is left after it
\* without looking whether anything is left
GroupSentencesFlushing(sentences, i, currentChunk, maxSentencesPerChunk) ==
    IF i > Len(sentences) THEN <<Trim(JoinWithSpace(currentChunk))>>
    ELSE LET cur == Append(currentChunk, Trim(sentences[i]))
         IN  IF Len(cur) >= maxSentencesPerChunk
             THEN <<Trim(JoinWithSpace(cur))>>
                  \o GroupSentencesFlushing(sentences, i + 1, <<>>,
                                            maxSentencesPerChunk)
             ELSE GroupSentencesFlushing(sentences, i + 1, cur,
                                         maxSentencesPerChunk)

RECURSIVE GroupSentences(_, _, _, _)
\* the for loop over sentences: i is the index of the next sentence (from 1),
\* currentChunk the sentences collected so far
GroupSentences(sentences, i, currentChunk, maxSentencesPerChunk) ==
    IF i > Len(sentences) THEN <<>>
    ELSE LET cur == Append(currentChunk, Trim(sentences[i]))
         IN  IF Len(cur) >= maxSentencesPerChunk \/ i = Len(sentences)
             THEN LET chunk == Trim(JoinWithSpace(cur))
                  IN  (IF chunk # <<>> THEN <<chunk>> ELSE <<>>)
                      \o GroupSentences(sentences, i + 1, <<>>, maxSentencesPerChunk)
             ELSE GroupSentences(sentences, i + 1, cur, maxSentencesPerChunk)

splitTextIntoChunks(text, maxSentencesPerChunk) ==
    LET enhancedText == addNaturalPauses(text)
        sentences == MatchSentences(enhancedText, 1)
        chunks == GroupSentences(sentences, 1, <<>>, maxSentencesPerChunk)
    IN  IF sentences = <<>> THEN <<enhancedText>>
        ELSE IF Len(chunks) > 0 THEN chunks ELSE <<enhancedText>>

(***************************************************************************)
(* Sample documents handed to convertTextToSpeech.                         *)
(***************************************************************************)
RECURSIVE Repeat(_, _)
Repeat(s, k) == IF k = 0 THEN <<>> ELSE s \o Repeat(s, k - 1)

DocBlank == <<" ">>
DocNoTerminator == <<"o", "k">>
DocOneChunk == <<"H", "i", "!", " ", "B", "y", "e", ".">>
DocTwoChunks == Repeat(<<"a", ".", " ">>, 4)
DocThreeChunks == Repeat(<<"b", "?", "\n">>, 7)
\* a body with a marker, then a footnote section after 60% of the text
DocFootnote ==
    <<"R", "e", "a", "d", " ", "o", "n", "[", "1", "]", ".", " ",
      "F", "i", "n", "e", ".", " ", "Y", "e", "s", ".", "\n",
      "1", ".", " ", "N", ".">>
Docs == {DocBlank, DocNoTerminator, DocOneChunk, DocTwoChunks, DocThreeChunks,
         DocFootnote}

\* arguments of seekToPercentage, seekForward and seekBackward
Percentages == {-10, 0, 34, 50, 100, 150}
Amounts == {10, 50}

(***************************************************************************)
(* State.                                                                  *)
(***************************************************************************)
VARIABLES
    textChunks,         \* let textChunks: the chunk sequence
    currentChunkIndex,  \* let currentChunkIndex (0-based)
    isPaused,           \* let isPaused
    currentUtterance,   \* let currentUtterance: <<>> is null, <<i>> the utterance made for chunk i
    queue,              \* window.speechSynthesis: utterances spoken or queued, head first
    enginePaused,       \* window.speechSynthesis.paused
    cancelled,          \* utterances removed by cancel() whose event is not yet dispatched
    timers,             \* armed setTimeout(() => speakNextChunk(options), 100) callbacks, oldest first
    readFootnotes,      \* let readFootnotes
    footnoteMap,        \* let footnoteMap: marker -> content
    available,          \* 'speechSynthesis' in window
    conversions,        \* the text steps are pure: their results for the sample documents
    errorMark,          \* history: engine error not yet followed by a user operation
    pieces,             \* the pieces the argument of a text function is put together from
    argument,           \* the text a text function is called with
    result              \* the call made and the value it returned

vars == <<textChunks, currentChunkIndex, isPaused, currentUtterance, queue,
          enginePaused, cancelled, timers, readFootnotes, footnoteMap,
          available, conversions, errorMark, pieces, argument, result>>

NULL == <<>>
\* result before any call of a text function
NotCalled == [op |-> <<"none">>, value |-> <<>>]
PromiseStates == {"pending", "resolved", "rejected"}

\* resolve() and reject() settle a promise once
Resolve(p) == IF p = "pending" THEN "resolved" ELSE p
Reject(p) == IF p = "pending" THEN "rejected" ELSE p

\* the script's variables and the engine as one value, so that a handler's
\* calls compose
Cur ==
    [textChunks |-> textChunks, currentChunkIndex |-> currentChunkIndex,
     isPaused |-> isPaused, currentUtterance |-> currentUtterance,
     queue |-> queue, enginePaused |-> enginePaused,
     cancelled |-> cancelled, timers |-> timers,
     readFootnotes |-> readFootnotes, footnoteMap |-> footnoteMap,
     available |-> available]

Script(S) ==
    /\ textChunks' = S.textChunks
    /\ currentChunkIndex' = S.currentChunkIndex
    /\ isPaused' = S.isPaused
    /\ currentUtterance' = S.currentUtterance
    /\ queue' = S.queue
    /\ enginePaused' = S.enginePaused
    /\ cancelled' = S.cancelled
    /\ timers' = S.timers
    /\ readFootnotes' = S.readFootnotes
    /\ footnoteMap' = S.footnoteMap
    /\ available' = S.available

Commit(S) ==
    /\ Script(S)
    /\ UNCHANGED <<conversions, pieces, argument, result>>

(***************************************************************************)
(* SpeechSynthesis (W3C Web Speech API).                                   *)
(***************************************************************************)
\* speaking: an utterance has begun being spoken and has not completed
EngineSpeaking(S) == S.queue # <<>> /\ S.queue[1].started
\* pending: the queue holds utterances that have not started speaking
EnginePending(S) == \E k \in DOMAIN S.queue : ~S.queue[k].started

RECURSIVE CountCancelled(_, _)
CountCancelled(c, q) ==
    IF q = <<>> THEN c
    ELSE CountCancelled([c EXCEPT ![q[1].promise] = @ + 1], Tail(q))

\* speechSynthesis.cancel(): empties the queue; the paused state is kept
EngineCancel(S) ==
    [S EXCEPT !.queue = <<>>, !.cancelled = CountCancelled(S.cancelled, S.queue)]

CancelledTotal(S) ==
    S.cancelled["pending"] + S.cancelled["resolved"] + S.cancelled["rejected"]

InFlight(S) == Len(S.queue) + Len(S.timers)

WithinBounds(S) == InFlight(S) <= MaxInFlight /\ CancelledTotal(S) <= MaxCancelled

(***************************************************************************)
(* Functions of the converter script.                                      *)
(***************************************************************************)
\* textChunks[i] of JavaScript (0-based, undefined outside the array)
ChunkAt(chunks, i) ==
    IF i >= 0 /\ i < Len(chunks) THEN chunks[i + 1] ELSE <<"undefined">>

\* state of the promise of speakNextChunk once the executor has returned
PromiseAfterSpeak(p) == Resolve(p)

\* state of that promise once the utterance's onerror handler has run
PromiseAfterError(p) == Reject(p)

\* speakNextChunk without the check for the end of the chunks
speakNextChunkUnguarded(S, cause, after) ==
    LET u == [chunk |-> S.currentChunkIndex,
              text |-> ChunkAt(S.textChunks, S.currentChunkIndex),
              cause |-> cause, after |-> after,
              promise |-> PromiseAfterSpeak("pending"),
              started |-> FALSE]
    IN  [S EXCEPT !.currentUtterance = <<S.currentChunkIndex>>,
                  !.queue = Append(S.queue, u)]

\* speakNextChunk(options); cause and after record who called it
speakNextChunk(S, cause, after) ==
    IF S.currentChunkIndex >= Len(S.textChunks) THEN S
    ELSE LET u == [chunk |-> S.currentChunkIndex,
                   text |-> ChunkAt(S.textChunks, S.currentChunkIndex),
                   cause |-> cause, after |-> after,
                   promise |-> PromiseAfterSpeak("pending"),
                   started |-> FALSE]
         IN  [S EXCEPT !.currentUtterance = <<S.currentChunkIndex>>,
                       !.queue = Append(S.queue, u)]

\* pauseSpeech without its guard
pauseSpeechUnguarded(S) == [S EXCEPT !.enginePaused = TRUE, !.isPaused = TRUE]

pauseSpeech(S) ==
    IF EngineSpeaking(S) /\ ~S.enginePaused
    THEN [S EXCEPT !.enginePaused = TRUE, !.isPaused = TRUE]
    ELSE S

resumeSpeech(S) ==
    IF S.enginePaused
    THEN [S EXCEPT !.enginePaused = FALSE, !.isPaused = FALSE]
    ELSE S

\* cancelSpeech that also discards the text, as stopSpeech of
\* src/js/ttsConverter.js does
cancelSpeechClearing(S) ==
    IF EngineSpeaking(S) \/ EnginePending(S)
    THEN [EngineCancel(S) EXCEPT !.currentUtterance = NULL, !.isPaused = FALSE,
                                 !.currentChunkIndex = 0, !.textChunks = <<>>]
    ELSE S

cancelSpeech(S) ==
    IF EngineSpeaking(S) \/ EnginePending(S)
    THEN [EngineCancel(S) EXCEPT !.currentUtterance = NULL, !.isPaused = FALSE]
    ELSE S

stopSpeech(S) ==
    [cancelSpeech(S) EXCEPT !.currentChunkIndex = 0, !.textChunks = <<>>]

getCurrentPercentage(S) ==
    IF Len(S.textChunks) = 0 THEN 0
    ELSE (S.currentChunkIndex * 100) \div Len(S.textChunks)

\* seekToPercentage without the upper range check
SeekRejectedNoUpper(percentage, n) == percentage < 0 \/ n = 0

\* seekToPercentage without the lower range check
SeekRejectedNoLower(percentage, n) == percentage > 100 \/ n = 0

\* the two early returns of seekToPercentage
SeekRejected(percentage, n) == percentage < 0 \/ percentage > 100 \/ n = 0

\* the target chunk without the clamp to the last chunk
SeekTargetUnclamped(percentage, n) == (percentage * n) \div 100

\* Math.min(Math.floor((percentage / 100) * textChunks.length), textChunks.length - 1)
SeekTarget(percentage, n) == Min((percentage * n) \div 100, n - 1)

seekToPercentage(S, percentage) ==
    IF SeekRejected(percentage, Len(S.textChunks)) THEN S
    ELSE LET C == cancelSpeech(S)
             T == [C EXCEPT !.currentChunkIndex =
                                SeekTarget(percentage, Len(S.textChunks))]
         IN  speakNextChunk(T, "seek", -1)

\* seekNextChunk without the check for the last chunk
seekNextChunkNoBoundary(S) ==
    IF Len(S.textChunks) = 0 THEN S
    ELSE LET C == cancelSpeech(S)
         IN  speakNextChunk([C EXCEPT !.currentChunkIndex = @ + 1], "seek", -1)

seekNextChunk(S) ==
    IF Len(S.textChunks) = 0 THEN S
    ELSE IF S.currentChunkIndex >= Len(S.textChunks) - 1 THEN S
    ELSE LET C == cancelSpeech(S)
         IN  speakNextChunk([C EXCEPT !.currentChunkIndex = @ + 1], "seek", -1)

seekPreviousChunk(S) ==
    IF Len(S.textChunks) = 0 THEN S
    ELSE IF S.currentChunkIndex <= 0 THEN S
    ELSE LET C == cancelSpeech(S)
         IN  speakNextChunk([C EXCEPT !.currentChunkIndex = @ - 1], "seek", -1)

seekForward(S, percentageAmount) ==
    seekToPercentage(S, Min(100, getCurrentPercentage(S) + percentageAmount))

seekBackward(S, percentageAmount) ==
    seekToPercentage(S, Max(0, getCurrentPercentage(S) - percentageAmount))

setReadFootnotes(S, enabled) == [S EXCEPT !.readFootnotes = enabled]

getReadFootnotes(S) == S.readFootnotes

\* the text steps of convertTextToSpeech with the footnotes never read
ConvertChunksSkipping(text, reading) ==
    splitTextIntoChunks(preprocessText(detectFootnotes(text).cleanText), 3)

\* the text steps of convertTextToSpeech: footnotes, preprocessing, chunks
ConvertChunks(text, reading) ==
    LET detected == detectFootnotes(text)
        textToProcess ==
            IF reading /\ DOMAIN detected.footnotes # {}
            THEN insertFootnoteReadings(detected.cleanText, detected.footnotes)
            ELSE detected.cleanText
    IN  splitTextIntoChunks(preprocessText(textToProcess), 3)

\* what the text steps of convertTextToSpeech make of each sample document:
\* footnoteMap and textChunks (by readFootnotes), the chunks of the text
\* without and with the footnote content inlined, and textChunks in
\* src/js/ttsConverter.js, which has no footnote step
DocConversions ==
    [d \in Docs |->
        [footnotes |-> detectFootnotes(d).footnotes,
         chunks |-> [reading \in BOOLEAN |-> ConvertChunks(d, reading)],
         plain |-> splitTextIntoChunks(
                       preprocessText(detectFootnotes(d).cleanText), 3),
         inlined |-> splitTextIntoChunks(
                         preprocessText(
                             insertFootnoteReadings(
                                 detectFootnotes(d).cleanText,
                                 detectFootnotes(d).footnotes)), 3),
         chunksTts |-> splitTextIntoChunks(preprocessText(d), 3)]]

\* convertTextToSpeech without the check for the Web Speech API
convertTextToSpeechUnchecked(S, text) ==
    LET C == stopSpeech(S)
        L == [C EXCEPT !.footnoteMap = conversions[text].footnotes,
                       !.textChunks = conversions[text].chunks[S.readFootnotes],
                       !.currentChunkIndex = 0]
    IN  speakNextChunk(L, "convert", -1)

\* the throw of the first statement leaves everything as it is
convertTextToSpeech(S, text) ==
    IF ~S.available THEN S
    ELSE LET C == stopSpeech(S)
             L == [C EXCEPT !.footnoteMap = conversions[text].footnotes,
                            !.textChunks =
                                conversions[text].chunks[S.readFootnotes],
                            !.currentChunkIndex = 0]
         IN  speakNextChunk(L, "convert", -1)

\* state of the promise convertTextToSpeech returns, once it has run
PromiseOfConvert(S) ==
    IF ~S.available THEN Reject("pending") ELSE PromiseAfterSpeak("pending")

(***************************************************************************)
(* Initial state: the declarations at the top of the script.               *)
(***************************************************************************)
Declarations ==
    /\ textChunks = <<>>
    /\ currentChunkIndex = 0
    /\ isPaused = FALSE
    /\ currentUtterance = NULL
    /\ queue = <<>>
    /\ enginePaused = FALSE
    /\ cancelled = [p \in PromiseStates |-> 0]
    /\ timers = <<>>
    /\ readFootnotes = FALSE
    /\ footnoteMap = EmptyMap
    /\ available \in BOOLEAN
    /\ conversions = DocConversions
    /\ errorMark = <<>>

\* no text function is called on its own
Init ==
    /\ Declarations
    /\ pieces = <<>>
    /\ argument = <<>>
    /\ result = NotCalled

(***************************************************************************)
(* User operations (the click handlers of app.js call these functions).    *)
(***************************************************************************)
Convert(text) ==
    LET S == convertTextToSpeech(Cur, text)
    IN  /\ WithinBounds(S)
        /\ Commit(S)
        /\ errorMark' = <<>>

SetReadFootnotes(enabled) ==
    /\ Commit(setReadFootnotes(Cur, enabled))
    /\ UNCHANGED errorMark

PauseSpeech ==
    /\ Commit(pauseSpeech(Cur))
    /\ errorMark' = <<>>

ResumeSpeech ==
    /\ Commit(resumeSpeech(Cur))
    /\ errorMark' = <<>>

StopSpeech ==
    LET S == stopSpeech(Cur)
    IN  /\ WithinBounds(S)
        /\ Commit(S)
        /\ errorMark' = <<>>

SeekToPercentage(percentage) ==
    LET S == seekToPercentage(Cur, percentage)
    IN  /\ WithinBounds(S)
        /\ Commit(S)
        /\ errorMark' = <<>>

SeekNextChunk ==
    LET S == seekNextChunk(Cur)
    IN  /\ WithinBounds(S)
        /\ Commit(S)
        /\ errorMark' = <<>>

SeekPreviousChunk ==
    LET S == seekPreviousChunk(Cur)
    IN  /\ WithinBounds(S)
        /\ Commit(S)
        /\ errorMark' = <<>>

SeekForward(percentageAmount) ==
    LET S == seekForward(Cur, percentageAmount)
    IN  /\ WithinBounds(S)
        /\ Commit(S)
        /\ errorMark' = <<>>

SeekBackward(percentageAmount) ==
    LET S == seekBackward(Cur, percentageAmount)
    IN  /\ WithinBounds(S)
        /\ Commit(S)
        /\ errorMark' = <<>>

(***************************************************************************)
(* Engine events and the inter-chunk timer.                                *)
(***************************************************************************)
\* body of the onend handler of an utterance whose promise is in state p
OnEnd(S, u) ==
    LET I == [S EXCEPT !.currentChunkIndex = @ + 1]
    IN  IF I.currentChunkIndex < Len(I.textChunks)
        THEN [I EXCEPT !.timers = Append(@, [after |-> u.chunk])]
        ELSE I

\* the engine begins to speak the head of the queue: onstart
EngineStart ==
    /\ queue # <<>>
    /\ ~queue[1].started
    /\ ~enginePaused
    /\ queue' = [queue EXCEPT ![1].started = TRUE]
    /\ isPaused' = FALSE
    /\ UNCHANGED <<available, conversions, textChunks, currentChunkIndex, currentUtterance,
                   enginePaused, cancelled, timers, readFootnotes,
                   footnoteMap, errorMark, pieces, argument, result>>

\* the utterance being spoken completes: onend
EngineEnd ==
    /\ EngineSpeaking(Cur)
    /\ ~enginePaused
    /\ LET u == queue[1]
           S == OnEnd([Cur EXCEPT !.queue = Tail(queue)], u)
       IN  Commit(S)
    /\ UNCHANGED errorMark

\* the engine fails on the head of the queue: onerror
EngineError ==
    /\ queue # <<>>
    /\ LET u == queue[1]
       IN  /\ queue' = Tail(queue)
           /\ errorMark' = <<u.chunk, FALSE, PromiseAfterError(u.promise)>>
    /\ UNCHANGED <<available, conversions, textChunks, currentChunkIndex, isPaused,
                   currentUtterance, enginePaused, cancelled, timers,
                   readFootnotes, footnoteMap, pieces, argument, result>>

\* a cancelled utterance is notified with an error event (interrupted or
\* canceled): onerror
CancelledError ==
    \E p \in PromiseStates :
        /\ cancelled[p] > 0
        /\ cancelled' = [cancelled EXCEPT ![p] = @ - 1]
        /\ UNCHANGED <<available, conversions, textChunks, currentChunkIndex, isPaused,
                       currentUtterance, queue, enginePaused, timers,
                       readFootnotes, footnoteMap, errorMark, pieces,
                       argument, result>>

\* a cancelled utterance is notified with an end event, as engines that
\* predate the error codes do: onend
CancelledEnd ==
    \E p \in PromiseStates :
        /\ cancelled[p] > 0
        /\ LET S == OnEnd([Cur EXCEPT !.cancelled[p] = @ - 1],
                          [chunk |-> -1])
           IN  /\ WithinBounds(S)
               /\ Commit(S)
        /\ UNCHANGED errorMark

\* the oldest armed timer fires: speakNextChunk(options)
TimerFire ==
    /\ timers # <<>>
    /\ LET S == speakNextChunk([Cur EXCEPT !.timers = Tail(timers)],
                               "timer", timers[1].after)
       IN  /\ Commit(S)
           /\ errorMark' = IF errorMark # <<>> /\ S.queue # queue
                           THEN <<errorMark[1], TRUE, errorMark[3]>>
                           ELSE errorMark

Next ==
    \/ \E text \in Docs : Convert(text)
    \/ \E enabled \in BOOLEAN : SetReadFootnotes(enabled)
    \/ PauseSpeech
    \/ ResumeSpeech
    \/ StopSpeech
    \/ \E percentage \in Percentages : SeekToPercentage(percentage)
    \/ SeekNextChunk
    \/ SeekPreviousChunk
    \/ \E amount \in Amounts : SeekForward(amount)
    \/ \E amount \in Amounts : SeekBackward(amount)
    \/ EngineStart
    \/ EngineEnd
    \/ EngineError
    \/ CancelledError
    \/ CancelledEnd
    \/ TimerFire

Spec == Init /\ [][Next]_vars

(***************************************************************************)
(* The converter of src/js/ttsConverter.js: the same script without the    *)
(* seek operations, whose stopSpeech clears the session only while the     *)
(* engine is speaking or has utterances pending.                           *)
(***************************************************************************)
stopSpeechTts(S) ==
    IF EngineSpeaking(S) \/ EnginePending(S)
    THEN [EngineCancel(S) EXCEPT !.currentUtterance = NULL,
                                 !.currentChunkIndex = 0,
                                 !.textChunks = <<>>,
                                 !.isPaused = FALSE]
    ELSE S

convertTextToSpeechTts(S, text) ==
    IF ~S.available THEN S
    ELSE LET C == stopSpeechTts(S)
             L == [C EXCEPT !.textChunks = conversions[text].chunksTts,
                            !.currentChunkIndex = 0]
         IN  speakNextChunk(L, "convert", -1)

ConvertTts(text) ==
    LET S == convertTextToSpeechTts(Cur, text)
    IN  /\ WithinBounds(S)
        /\ Commit(S)
        /\ errorMark' = <<>>

StopSpeechTts ==
    LET S == stopSpeechTts(Cur)
    IN  /\ WithinBounds(S)
        /\ Commit(S)
        /\ errorMark' = <<>>

NextTts ==
    \/ \E text \in Docs : ConvertTts(text)
    \/ PauseSpeech
    \/ ResumeSpeech
    \/ StopSpeechTts
    \/ EngineStart
    \/ EngineEnd
    \/ EngineError
    \/ CancelledError
    \/ CancelledEnd
    \/ TimerFire

SpecTts == Init /\ [][NextTts]_vars

(***************************************************************************)
(* Playback left to itself.  Anything may happen to the page until one     *)
(* click on Convert, recorded in result; after it the user does nothing    *)
(* and the engine reports no error: only the engine's start, end and       *)
(* cancellation events and the timers of speakNextChunk run, and they are  *)
(* delivered fairly (the browser's event loop runs every queued task).     *)
(***************************************************************************)
Converted == result.op = <<"convert">>

\* the click on Convert after which the page is left alone (app.js)
ConvertAndLeave(text) ==
    /\ ~Converted
    /\ LET S == convertTextToSpeech(Cur, text)
       IN  /\ WithinBounds(S)
           /\ Script(S)
    /\ errorMark' = <<>>
    /\ result' = [op |-> <<"convert">>, value |-> text]
    /\ UNCHANGED <<conversions, pieces, argument>>

NextPlay ==
    \/ ~Converted /\ \E text \in Docs : Convert(text)
    \/ ~Converted /\ \E enabled \in BOOLEAN : SetReadFootnotes(enabled)
    \/ ~Converted /\ PauseSpeech
    \/ ~Converted /\ ResumeSpeech
    \/ ~Converted /\ StopSpeech
    \/ ~Converted /\ \E percentage \in Percentages : SeekToPercentage(percentage)
    \/ ~Converted /\ SeekNextChunk
    \/ ~Converted /\ SeekPreviousChunk
    \/ ~Converted /\ \E amount \in Amounts : SeekForward(amount)
    \/ ~Converted /\ \E amount \in Amounts : SeekBackward(amount)
    \/ ~Converted /\ EngineError
    \/ \E text \in Docs : ConvertAndLeave(text)
    \/ EngineStart
    \/ EngineEnd
    \/ CancelledError
    \/ CancelledEnd
    \/ TimerFire

SpecPlay ==
    /\ Init
    /\ [][NextPlay]_vars
    /\ WF_vars(EngineStart)
    /\ WF_vars(EngineEnd)
    /\ WF_vars(CancelledError \/ CancelledEnd)
    /\ WF_vars(TimerFire)

(***************************************************************************)
(* The text functions called on their own.  The argument is put together   *)
(* from pieces, so that a property can speak of the sentences, tokens or   *)
(* lines the text was written with; the script's variables stay as         *)
(* declared.                                                               *)
(***************************************************************************)
\* all sequences of at most n elements of S
SeqsUpTo(S, n) == UNION {[1..k -> S] : k \in 0..n}

\* the function called with the argument, and what it returned
Returned(op, value) ==
    /\ result' = [op |-> op, value |-> value]
    /\ UNCHANGED <<textChunks, currentChunkIndex, isPaused, currentUtterance,
                   queue, enginePaused, cancelled, timers, readFootnotes,
                   footnoteMap, available, conversions, errorMark, pieces,
                   argument>>

(***************************************************************************)
(* splitTextIntoChunks on texts of sentences, loose words and terminators. *)
(***************************************************************************)
\* a run of non-terminators followed by one or more terminators
SentencePieces == {<<"A", ".">>, <<"B", "e", "!">>, <<"C", "?", "?">>}
\* words without a terminator, a terminator on its own, white space
LoosePieces == {<<"o", "k">>, <<".">>, <<"\t">>}

\* values of maxSentencesPerChunk: the default, and the 3 of convertTextToSpeech
SentenceLimits == {1, 2, 3}

InitSplit ==
    /\ Declarations
    /\ pieces \in SeqsUpTo(SentencePieces \cup LoosePieces, MaxPieces)
    /\ argument = JoinWithSpace(pieces)
    /\ result = NotCalled

SplitTextIntoChunks(maxSentencesPerChunk) ==
    Returned(<<"split", maxSentencesPerChunk>>,
             splitTextIntoChunks(argument, maxSentencesPerChunk))

NextSplit == \E maxSentencesPerChunk \in SentenceLimits :
                 SplitTextIntoChunks(maxSentencesPerChunk)

SpecSplit == InitSplit /\ [][NextSplit]_vars

(***************************************************************************)
(* preprocessText on texts of tokens separated by spaces.                  *)
(***************************************************************************)
\* tokens and what the rules of preprocessText make of each on its own:
\* abbreviations, then ordinals, then currency, then the clean-up
TokenReadings == <<
    <<<<"D", "r", ".">>, <<"D", "o", "c", "t", "o", "r">>>>,
    <<<<"S", "m", "i", "t", "h">>, <<"S", "m", "i", "t", "h">>>>,
    <<<<"l", "i", "v", "e", "s">>, <<"l", "i", "v", "e", "s">>>>,
    <<<<"a", "t">>, <<"a", "t">>>>,
    <<<<"1">>, <<"1">>>>,
    <<<<"S", "t", ".">>, <<"S", "t", "r", "e", "e", "t">>>>,
    <<<<"a", "n", "d">>, <<"a", "n", "d">>>>,
    <<<<"p", "a", "i", "d">>, <<"p", "a", "i", "d">>>>,
    <<<<"$", "5", ".">>, <<"5", " ", "d", "o", "l", "l", "a", "r", "s", ".">>>>,
    <<<<"2", "n", "d">>, <<"s", "e", "c", "o", "n", "d">>>>,
    <<<<"$", "5">>, <<"5", " ", "d", "o", "l", "l", "a", "r", "s">>>>,
    <<<<"$", "1", "s", "t">>, <<"$", "f", "i", "r", "s", "t">>>>,
    <<<<"$", "$", "5">>, <<"$", "5", " ", "d", "o", "l", "l", "a", "r", "s">>>>,
    <<<<"1", "~", "s", "t">>, <<"1", "s", "t">>>> >>

\* the decimal digits of n, for n < 100
DigitsOf(n) ==
    IF n < 10 THEN <<PlainDigits[n + 1]>>
    ELSE <<PlainDigits[(n \div 10) + 1], PlainDigits[(n % 10) + 1]>>

OrdinalValues == 0..33
\* 0th, 1st, 1nd, ... : every value with every suffix
OrdinalTokens ==
    {DigitsOf(n) \o suffix : n \in OrdinalValues, suffix \in OrdinalSuffixes}

\* "Dr. Smith lives at 1 St. and paid $5."
ExamplePieces == <<<<"D", "r", ".">>, <<"S", "m", "i", "t", "h">>, <<"l", "i", "v", "e", "s">>, <<"a", "t">>, <<"1">>, <<"S", "t", ".">>, <<"a", "n", "d">>, <<"p", "a", "i", "d">>, <<"$", "5", ".">>>>

NormalizeTokens == {<<"D", "r", ".">>,
                    <<"S", "t", ".">>,
                    <<"2", "n", "d">>,
                    <<"$", "5">>,
                    <<"$", "1", "s", "t">>,
                    <<"$", "$", "5">>,
                    <<"1", "~", "s", "t">>,
                    <<"1">>}

InitNormalize ==
    /\ Declarations
    /\ pieces \in SeqsUpTo(NormalizeTokens, MaxPieces)
                  \cup {<<token>> : token \in OrdinalTokens}
                  \cup {ExamplePieces}
    /\ argument = JoinWithSpace(pieces)
    /\ result = NotCalled

\* result.value: what each pass so far returned
PreprocessText == Returned(<<"normalize">>, <<preprocessText(argument)>>)

\* preprocessText called on what it returned
PreprocessAgain ==
    /\ result.op = <<"normalize">>
    /\ Len(result.value) = 1
    /\ Returned(<<"normalize">>,
                Append(result.value, preprocessText(result.value[1])))

NextNormalize == PreprocessText \/ PreprocessAgain

SpecNormalize == InitNormalize /\ [][NextNormalize]_vars

(***************************************************************************)
(* detectFootnotes on texts of lines.                                      *)
(***************************************************************************)
RECURSIVE JoinLines(_)
\* the lines of a text separated by line feeds
JoinLines(ss) ==
    IF ss = <<>> THEN <<>>
    ELSE IF Len(ss) = 1 THEN ss[1]
    ELSE ss[1] \o <<"\n">> \o JoinLines(Tail(ss))

\* lines of the body, one of them with a marker, and an empty line
BodyLines == {<<"a", "b", "c", "d", "e", "f", "g", "h">>, <<"S", "e", "e", "[", "1", "]", ".">>, <<>>}
\* footnote content lines, <<marker, content>>: "1. x" and "*. yz"
FootnoteLines == {<<<<"1">>, <<"x">>>>, <<<<"*">>, <<"y", "z">>>>}

\* marker, period, space, content
FootnoteLine(f) == f[1] \o <<".", " ">> \o f[2]

InitExtract ==
    /\ Declarations
    /\ pieces \in SeqsUpTo(BodyLines \cup {FootnoteLine(f) : f \in FootnoteLines},
                           MaxPieces)
    /\ argument = JoinLines(pieces)
    /\ result = NotCalled

DetectFootnotes == Returned(<<"extract">>, detectFootnotes(argument))

NextExtract == DetectFootnotes

SpecExtract == InitExtract /\ [][NextExtract]_vars

(***************************************************************************)
(* insertFootnoteReadings on texts of tokens separated by spaces.          *)
(***************************************************************************)
\* tokens: the text before a marker, the marker as written, the marker it
\* stands for, the text after it; "*a" holds no marker
MarkerTokens == {
    [before |-> <<"o", "n">>, markerText |-> <<"[", "1", "]">>, marker |-> <<"1">>, after |-> <<".">>],
    [before |-> <<>>, markerText |-> <<"(", "1", ")">>, marker |-> <<"1">>, after |-> <<>>],
    [before |-> <<>>, markerText |-> <<"SUP1">>, marker |-> <<"1">>, after |-> <<>>],
    [before |-> <<>>, markerText |-> <<"SUP1", "SUP2">>, marker |-> <<"1", "2">>, after |-> <<>>],
    [before |-> <<>>, markerText |-> <<"*">>, marker |-> <<"*">>, after |-> <<>>],
    [before |-> <<>>, markerText |-> <<"[", "2", "]">>, marker |-> <<"2">>, after |-> <<>>],
    [before |-> <<"*", "a">>, markerText |-> <<>>, marker |-> <<>>, after |-> <<>>]}

TokenText(token) == token.before \o token.markerText \o token.after

\* footnote tables: none, one footnote, footnotes 1, 12 and *
FootnoteTables ==
    {EmptyMap,
     [m \in {<<"1">>} |-> <<"x">>],
     [m \in {<<"1">>, <<"1", "2">>, <<"*">>} |->
         IF m = <<"1">> THEN <<"x">> ELSE IF m = <<"*">> THEN <<"y", "z">> ELSE <<"n">>]}

InitInline ==
    /\ Declarations
    /\ pieces \in SeqsUpTo(MarkerTokens, MaxPieces)
    /\ argument = JoinWithSpace([k \in DOMAIN pieces |-> TokenText(pieces[k])])
    /\ result = NotCalled

InsertFootnoteReadings(footnotes) ==
    Returned(<<"inline", footnotes>>, insertFootnoteReadings(argument, footnotes))

NextInline == \E footnotes \in FootnoteTables : InsertFootnoteReadings(footnotes)

SpecInline == InitInline /\ [][NextInline]_vars

(***************************************************************************)
(* convertLongText of docs/api-setup.md: the splitter by length in front   *)
(* of puter.ai.txt2speech, on texts of short and long sentences.           *)
(***************************************************************************)
\* (currentChunk + sentence).length > 3000
CharacterLimit == 3000

RECURSIVE LongTextLoop(_, _, _, _)
\* the for loop over sentences from sentence i on; nothing follows it but
\* chunks.map(...)
LongTextLoop(sentences, i, chunks, currentChunk) ==
    IF i > Len(sentences) THEN chunks
    ELSE IF Len(currentChunk \o sentences[i]) > CharacterLimit
         THEN LongTextLoop(sentences, i + 1, Append(chunks, currentChunk),
                           sentences[i])
         ELSE LongTextLoop(sentences, i + 1, chunks,
                           currentChunk \o sentences[i])

\* the chunks handed to puter.ai.txt2speech
convertLongText(text) ==
    LET matched == MatchSentences(text, 1)
        \* text.match(/[^.!?]+[.!?]+/g) || [text]
        sentences == IF matched = <<>> THEN <<text>> ELSE matched
    IN  LongTextLoop(sentences, 1, <<>>, <<>>)

\* two short sentences, one of more than half the limit, one above the limit
LongTextSentences ==
    {<<"A", ".">>, <<"B", "e", "!">>,
     [k \in 1..1600 |-> "x"] \o <<".">>,
     [k \in 1..3200 |-> "y"] \o <<"?">>}

InitLong ==
    /\ Declarations
    /\ pieces \in SeqsUpTo(LongTextSentences, MaxPieces)
    /\ argument = JoinWithSpace(pieces)
    /\ result = NotCalled

ConvertLongText == Returned(<<"long">>, convertLongText(argument))

NextLong == ConvertLongText

SpecLong == InitLong /\ [][NextLong]_vars

(***************************************************************************)
(* Queries of the converter script.                                        *)
(***************************************************************************)
isSpeaking == EngineSpeaking(Cur)
isSpeechPaused == isPaused

getCurrentPosition ==
    [currentChunk |-> currentChunkIndex,
     totalChunks |-> Len(textChunks),
     percentage |-> getCurrentPercentage(Cur),
     remainingChunks |-> Len(textChunks) - currentChunkIndex]

(***************************************************************************)
(* Properties.                                                             *)
(***************************************************************************)

\* C1: the synthesis engine never holds more than one utterance (speaking or
\* queued) issued by the sequencer at the same time.
C1_AtMostOneUtterance == Len(queue) <= 1

\* C2: a speak request for chunk j is issued only by convert (j = 0), by a
\* seek (for its target), or by the inter-chunk timer after the completion of
\* the utterance for chunk j - 1; so no chunk is skipped or spoken twice
\* without a seek.
C2_SpeakOrder ==
    \A k \in DOMAIN queue :
        \/ queue[k].cause = "convert" /\ queue[k].chunk = 0
        \/ queue[k].cause = "seek"
        \/ queue[k].cause = "timer" /\ queue[k].after = queue[k].chunk - 1

\* C3: stop(), whatever the state it is called in (here the stopSpeech of
\* src/js/ttsConverter.js), leaves chunks empty and currentIndex 0, so that
\* isSpeaking() is false and getPosition().total is 0.
C3_StopClears ==
    LET S == stopSpeechTts(Cur)
    IN  /\ S.textChunks = <<>>
        /\ S.currentChunkIndex = 0
        /\ ~EngineSpeaking(S)
        /\ Len(S.textChunks) = 0

\* C4: currentIndex is always in [0, chunks.length], so remaining is never
\* negative and percentage never exceeds 100.
C4_IndexInRange ==
    /\ currentChunkIndex >= 0
    /\ currentChunkIndex <= Len(textChunks)
    /\ getCurrentPosition.remainingChunks >= 0
    /\ getCurrentPosition.percentage <= 100

\* C5: when the engine reports an error for an utterance it holds, the
\* promise of the speakNextChunk call that issued the utterance ends rejected.
C5_ErrorRejects == errorMark # <<>> => errorMark[3] = "rejected"

\* C6: after an engine error on the utterance for chunk i, and until the next
\* user operation, currentIndex stays i, the chunks stay loaded and no speak
\* request is issued (so that playFrom would speak chunk i again).
C6_NoAutoContinue ==
    errorMark # <<>> =>
        /\ currentChunkIndex = errorMark[1]
        /\ Len(textChunks) > 0
        /\ ~errorMark[2]

\* C7: isPaused is true exactly when the engine is paused with an utterance
\* in flight.
C7_PausedAgrees == isSpeechPaused <=> (enginePaused /\ queue # <<>>)

\* C8: in every state with chunks loaded, seekToPercentage(p) with
\* 0 <= p <= 100 sets currentIndex to min(floor(p/100 * n), n - 1), removes
\* every utterance the engine held and leaves exactly one new speak request,
\* for chunks[currentIndex]; the chunks are kept.
C8_SeekToPercentage ==
    \A p \in Percentages :
        (p >= 0 /\ p <= 100 /\ Len(textChunks) > 0) =>
            LET n == Len(textChunks)
                t == IF (p * n) \div 100 < n - 1 THEN (p * n) \div 100 ELSE n - 1
                S == seekToPercentage(Cur, p)
            IN  /\ S.textChunks = textChunks
                /\ S.currentChunkIndex = t
                /\ Len(S.queue) = 1
                /\ S.queue[1].chunk = t
                /\ S.queue[1].text = textChunks[t + 1]
                /\ ~S.queue[1].started
                /\ CancelledTotal(S) = CancelledTotal(Cur) + Len(queue)

\* chunk 0 of three is being spoken and seekToPercentage(100) cancels it and
\* speaks the last chunk
C8_Witness ==
    /\ Len(textChunks) = 3
    /\ currentChunkIndex = 0
    /\ Len(queue) = 1 /\ queue[1].started
    /\ LET S == seekToPercentage(Cur, 100)
       IN  /\ S.currentChunkIndex = 2
           /\ S.queue[1].chunk = 2
           /\ CancelledTotal(S) = CancelledTotal(Cur) + 1

\* C9 as stated: with chunks loaded, seekToPercentage(150) ends in the same
\* currentIndex and issues the same speak request as seekToPercentage(100)
\* from the same state.
C9_Seek150Like100 ==
    Len(textChunks) > 0 =>
        /\ seekToPercentage(Cur, 150).currentChunkIndex =
               seekToPercentage(Cur, 100).currentChunkIndex
        /\ seekToPercentage(Cur, 150).queue = seekToPercentage(Cur, 100).queue

\* C9 amended: seekToPercentage(150) is rejected and changes nothing, in
\* every state.
C9_Seek150Rejected == seekToPercentage(Cur, 150) = Cur

\* chunk 0 of three is being spoken: seekToPercentage(150) leaves everything
\* as it is, where seekToPercentage(100) goes to the last chunk
C9_Witness ==
    /\ Len(textChunks) = 3
    /\ currentChunkIndex = 0
    /\ queue # <<>> /\ queue[1].started
    /\ seekToPercentage(Cur, 150) = Cur
    /\ seekToPercentage(Cur, 100).currentChunkIndex = 2

\* C10: seekToPercentage(p) with p < 0, or with no chunks loaded, is rejected
\* and changes nothing: chunks, currentIndex, isPaused, the utterance in
\* flight and the engine are as before, and no speak request is issued.
C10_SeekRejectedNoChange ==
    \A p \in Percentages :
        (p < 0 \/ Len(textChunks) = 0) => seekToPercentage(Cur, p) = Cur

\* a chunk of the second half is being spoken and seekToPercentage(-10)
\* leaves it so, where seekToPercentage(0) goes back to chunk 0
C10_Witness ==
    /\ Len(textChunks) > 1
    /\ currentChunkIndex > 0
    /\ Len(queue) = 1 /\ queue[1].started
    /\ seekToPercentage(Cur, -10) = Cur
    /\ seekToPercentage(Cur, 0).currentChunkIndex = 0

\* C11: seekNextChunk() at the last chunk and seekPreviousChunk() at the
\* first chunk change no state: chunks, currentIndex, isPaused, the utterance
\* in flight and the engine are as before, and no speak request is issued.
C11_SeekAtBoundary ==
    /\ currentChunkIndex = Len(textChunks) - 1 => seekNextChunk(Cur) = Cur
    /\ currentChunkIndex = 0 => seekPreviousChunk(Cur) = Cur

\* the last of three chunks is being spoken: seekNextChunk() leaves
\* everything as it is, where seekPreviousChunk() goes back one chunk
C11_Witness ==
    /\ Len(textChunks) = 3
    /\ currentChunkIndex = 2
    /\ Len(queue) = 1 /\ queue[1].started
    /\ seekNextChunk(Cur) = Cur
    /\ seekPreviousChunk(Cur).currentChunkIndex = 1

\* C12: cancelSpeech never changes chunks or currentIndex, changes nothing at
\* all when the engine holds no utterance, and is idempotent: two calls in a
\* row leave the same state as one.
C12_CancelFrame ==
    LET S == cancelSpeech(Cur)
    IN  /\ S.textChunks = textChunks
        /\ S.currentChunkIndex = currentChunkIndex
        /\ queue = <<>> => S = Cur
        /\ cancelSpeech(S) = S

\* chunk 1 of several is being spoken: cancelSpeech removes the utterance and
\* keeps the chunks and the index
C12_Witness ==
    /\ Len(textChunks) > 1
    /\ currentChunkIndex = 1
    /\ Len(queue) = 1 /\ queue[1].started
    /\ cancelSpeech(Cur).queue = <<>>
    /\ cancelSpeech(Cur).currentUtterance = NULL
    /\ cancelSpeech(Cur).currentChunkIndex = 1

\* C13: pauseSpeech changes state only while an utterance is in flight and
\* the sequencer is not paused; it then pauses the engine and sets isPaused,
\* and nothing else; while an utterance is being spoken and isPaused is false
\* it does so; when already paused or idle (nothing loaded or nothing in
\* flight) it changes nothing and makes no engine pause request.
C13_PauseOnlyWhileSpeaking ==
    LET S == pauseSpeech(Cur)
    IN  /\ S # Cur =>
            /\ queue # <<>> /\ ~isPaused
            /\ S = [Cur EXCEPT !.enginePaused = TRUE, !.isPaused = TRUE]
        /\ (isSpeaking /\ ~isPaused) => (S.isPaused /\ S.enginePaused)
        /\ (isPaused \/ Len(textChunks) = 0 \/ queue = <<>>) => S = Cur

\* an utterance is being spoken and pauseSpeech suspends it
C13_Witness ==
    /\ Len(queue) = 1 /\ queue[1].started
    /\ ~isPaused /\ ~enginePaused
    /\ pauseSpeech(Cur).isPaused
    /\ pauseSpeech(Cur).enginePaused
    /\ pauseSpeech(Cur).queue = queue

\* C14: resumeSpeech takes effect only while Paused (isPaused with an
\* utterance in flight): it then resumes the engine and clears isPaused,
\* leaving chunks and currentIndex unchanged; in any other state it changes
\* nothing.
C14_ResumeOnlyWhilePaused ==
    LET S == resumeSpeech(Cur)
    IN  /\ S.textChunks = textChunks
        /\ S.currentChunkIndex = currentChunkIndex
        /\ (isPaused /\ queue # <<>>) =>
               S = [Cur EXCEPT !.enginePaused = FALSE, !.isPaused = FALSE]
        /\ ~(isPaused /\ queue # <<>>) => S = Cur

\* C15: getCurrentPosition returns currentIndex, total = chunks.length,
\* percentage = floor(currentIndex / total * 100) and remaining = total -
\* currentIndex in every state, and all four are 0 when no chunks are loaded.
C15_GetPosition ==
    LET n == Len(textChunks)
        pos == getCurrentPosition
    IN  /\ pos.currentChunk = currentChunkIndex
        /\ pos.totalChunks = n
        /\ pos.remainingChunks = n - currentChunkIndex
        /\ n > 0 => pos.percentage = (currentChunkIndex * 100) \div n
        /\ n = 0 => pos = [currentChunk |-> 0, totalChunks |-> 0,
                           percentage |-> 0, remainingChunks |-> 0]

\* C16: convertTextToSpeech replaces the session: when it returns every
\* utterance the engine held has been cancelled, chunks is the new sequence,
\* currentIndex is 0, isPaused is false and exactly one speak request, for
\* chunks[0], has been issued.
C16_ConvertReplaces ==
    available =>
        \A text \in Docs :
            LET S == convertTextToSpeech(Cur, text)
            IN  /\ S.textChunks = conversions[text].chunks[readFootnotes]
                /\ S.currentChunkIndex = 0
                /\ Len(S.queue) = 1
                /\ S.queue[1].chunk = 0
                /\ S.queue[1].text = S.textChunks[1]
                /\ ~S.queue[1].started
                /\ CancelledTotal(S) = CancelledTotal(Cur) + Len(queue)
                /\ ~S.isPaused

\* C18: without the speech-synthesis capability convertTextToSpeech fails
\* (its promise is rejected) before any state is touched: chunks,
\* currentIndex, isPaused and the footnote table are unchanged and the engine
\* is not called.
C18_UnavailableFails ==
    ~available =>
        /\ \A text \in Docs : convertTextToSpeech(Cur, text) = Cur
        /\ PromiseOfConvert(Cur) = "rejected"

\* a browser without the capability, after the footnote toggle was set:
\* converting the footnote document leaves the chunks empty and the table
\* as it was
C18_Witness ==
    /\ ~available
    /\ readFootnotes
    /\ convertTextToSpeech(Cur, DocFootnote).textChunks = <<>>
    /\ convertTextToSpeech(Cur, DocFootnote).footnoteMap = EmptyMap
    /\ convertTextToSpeech(Cur, DocFootnote).queue = <<>>

\* C17: the chunk sequence is immutable once built: every step that changes
\* textChunks is a stop or a convert, so pause, resume, the seeks, the engine
\* callbacks and the timer (and the cancelSpeech the seeks call) leave it as
\* it is.
C17_ChunksImmutable ==
    [][textChunks' # textChunks =>
           (StopSpeech \/ \E text \in Docs : Convert(text))]_vars

\* three chunks are loaded, a seek has replaced the utterance by one for the
\* last chunk and that utterance is paused: the chunks are those of the
\* conversion
C17_Witness ==
    /\ textChunks = conversions[DocThreeChunks].chunks[FALSE]
    /\ Len(queue) = 1
    /\ queue[1].cause = "seek" /\ queue[1].chunk = 2 /\ queue[1].started
    /\ isPaused /\ enginePaused

\* C19: currentUtterance is null whenever no speak operation is in flight:
\* it is non-null only while the utterance it names is held by the engine,
\* so it is null when idle and when playback has finished.
C19_HandleOnlyInFlight ==
    currentUtterance # NULL =>
        \E k \in DOMAIN queue : queue[k].chunk = currentUtterance[1]

\* C20: setReadFootnotes changes nothing but the flag, getReadFootnotes
\* returns the value last set, and a conversion inlines the footnote content
\* exactly when the flag is true at that convertTextToSpeech call and the
\* document has footnotes.
C20_FootnoteToggle ==
    /\ \A enabled \in BOOLEAN :
           /\ setReadFootnotes(Cur, enabled) =
                  [Cur EXCEPT !.readFootnotes = enabled]
           /\ getReadFootnotes(setReadFootnotes(Cur, enabled)) = enabled
    /\ available =>
           \A text \in Docs :
               convertTextToSpeech(Cur, text).textChunks =
                   IF readFootnotes /\ DOMAIN conversions[text].footnotes # {}
                   THEN conversions[text].inlined
                   ELSE conversions[text].plain

\* the footnote document was converted with the flag set: its chunks carry
\* the footnote content, which they do not without the flag
C20_Witness ==
    /\ readFootnotes
    /\ footnoteMap # EmptyMap
    /\ queue # <<>>
    /\ textChunks = conversions[DocFootnote].inlined
    /\ textChunks # conversions[DocFootnote].plain
    /\ setReadFootnotes(Cur, FALSE).textChunks = textChunks

\* C21: splitTextIntoChunks(text, m) of a text of n sentences (each a run of
\* non-terminators followed by one or more terminators) returns ceil(n/m)
\* chunks, chunk k being sentences k*m .. min(n, (k+1)*m) - 1 joined by
\* spaces; a text without a terminator comes back as the only chunk.
C21_SentenceCount ==
    result.op[1] = "split" =>
        LET m == result.op[2]
            n == Len(pieces)
            chunks == result.value
        IN  /\ (n > 0 /\ \A k \in 1..n : pieces[k] \in SentencePieces) =>
                   /\ Len(chunks) = (n + m - 1) \div m
                   /\ \A k \in 1..Len(chunks) :
                          chunks[k] =
                              JoinWithSpace(SubSeq(pieces, (k - 1) * m + 1,
                                                   Min(n, k * m)))
            /\ (\A j \in 1..Len(argument) : argument[j] \notin Terminators) =>
                   /\ Len(chunks) = 1
                   /\ RemoveChars(chunks[1], Whitespace) =
                          RemoveChars(argument, Whitespace)

RECURSIVE Flatten(_)
\* the chunks one after the other
Flatten(ss) == IF ss = <<>> THEN <<>> ELSE ss[1] \o Flatten(Tail(ss))

\* a text without its white space and commas
Squeeze(s) == RemoveChars(s, Whitespace \cup {","})

\* C22: the chunks of splitTextIntoChunks, joined, are the whole text up to
\* white space and commas: nothing is dropped or doubled, text after the last
\* terminator and terminators at the start of the text included.
C22_ChunkCoverage ==
    result.op[1] = "split" => Squeeze(Flatten(result.value)) = Squeeze(argument)

\* C23: every chunk splitTextIntoChunks returns is non-empty after trimming,
\* but for the one empty chunk returned for an empty or white-space text.
C23_NoEmptyChunk ==
    result.op[1] = "split" =>
        /\ Len(result.value) >= 1
        /\ \/ \A k \in 1..Len(result.value) : Trim(result.value[k]) # <<>>
           \/ Trim(argument) = <<>> /\ result.value = <<<<>>>>

\* two sentences around white space and a terminator of its own, one
\* sentence per chunk: the last group is flushed by the end of the input
C23_Witness ==
    /\ result.op = <<"split", 2>>
    /\ pieces = <<<<"A", ".">>, <<"\t">>, <<"B", "e", "!">>>>
    /\ result.value = <<<<"A", ".", " ", "B", "e", "!">>>>

\* C24: when the chunks of a conversion are the one empty chunk (empty or
\* white-space text), nothing is handed to the engine and currentChunkIndex
\* stays 0.
C24_NothingToSpeak ==
    textChunks = <<<<>>>> =>
        /\ \A k \in DOMAIN queue : queue[k].text # <<>>
        /\ currentChunkIndex = 0

\* letters and the hyphen: what an ordinal written out is made of
WordFormChars == Range(UpperLetters) \cup Range(LowerLetters) \cup {"-"}

\* C25: preprocessText writes out a token of digits followed by st, nd, rd or
\* th for every value from 1 to 31, and leaves the token as it is for a value
\* outside 1..31.
C25_OrdinalsOneTo31 ==
    (result.op = <<"normalize">> /\ Len(pieces) = 1) =>
        \A n \in OrdinalValues, suffix \in OrdinalSuffixes :
            pieces[1] = DigitsOf(n) \o suffix =>
                IF n \in 1..31
                THEN /\ result.value[1] # <<>>
                     /\ \A j \in 1..Len(result.value[1]) :
                            result.value[1][j] \in WordFormChars
                ELSE result.value[1] = argument

\* the reading of a token
Reading(token) ==
    TokenReadings[CHOOSE k \in DOMAIN TokenReadings :
                      TokenReadings[k][1] = token][2]

\* the readings of the tokens of a text, in order
ReadingOf(tokens) ==
    JoinWithSpace([k \in DOMAIN tokens |-> Reading(tokens[k])])

\* sub occurs in s
Contains(s, sub) ==
    \E i \in 1..(Len(s) - Len(sub) + 1) : SubSeq(s, i, i + Len(sub) - 1) = sub

\* every token of the text is read by the abbreviation, ordinal and currency
\* rules in that order
TokensReadInOrder ==
    (result.op = <<"normalize">>
     /\ \A k \in DOMAIN pieces : pieces[k] \in NormalizeTokens) =>
        result.value[1] = ReadingOf(pieces)

FirstStreet ==
    <<"D", "o", "c", "t", "o", "r", " ", "S", "m", "i", "t", "h", " ", "l",
    "i", "v", "e", "s", " ", "a", "t", " ", "f", "i", "r", "s", "t", " ",
    "S", "t", "r", "e", "e", "t", " ", "a", "n", "d", " ", "p", "a", "i",
    "d", " ", "5", " ", "d", "o", "l", "l", "a", "r", "s", ".">>

OneStreet ==
    <<"D", "o", "c", "t", "o", "r", " ", "S", "m", "i", "t", "h", " ", "l",
    "i", "v", "e", "s", " ", "a", "t", " ", "1", " ", "S", "t", "r", "e",
    "e", "t", " ", "a", "n", "d", " ", "p", "a", "i", "d", " ", "5", " ",
    "d", "o", "l", "l", "a", "r", "s", ".">>

\* C26 as stated: preprocessText("Dr. Smith lives at 1 St. and paid $5.")
\* contains "Doctor Smith lives at first Street and paid 5 dollars.", and the
\* abbreviation, ordinal and currency rules apply in that order to every
\* matching token.
C26_ExampleFirstStreet ==
    /\ (result.op = <<"normalize">> /\ pieces = ExamplePieces) =>
           Contains(result.value[1], FirstStreet)
    /\ TokensReadInOrder

\* C26: preprocessText("Dr. Smith lives at 1 St. and paid $5.") returns
\* "Doctor Smith lives at 1 Street and paid 5 dollars." (the 1 of "1 St." is
\* no ordinal), and the abbreviation, ordinal and currency rules apply in
\* that order to every matching token.
C26_ExampleOneStreet ==
    /\ (result.op = <<"normalize">> /\ pieces = ExamplePieces) =>
           result.value[1] = OneStreet
    /\ TokensReadInOrder

\* the example has been normalized: its abbreviations and its amount are
\* written out, its 1 is not
C26_Witness ==
    /\ result.op = <<"normalize">>
    /\ pieces = ExamplePieces
    /\ result.value = <<OneStreet>>
    /\ ~Contains(result.value[1], FirstStreet)

\* no abbreviation is left to expand
NoAbbreviation(s) ==
    \A k \in DOMAIN abbreviations : NextAbbreviation(s, 1, abbreviations[k][1]) = 0

\* C27: preprocessText(preprocessText(x)) = preprocessText(x) for every x
\* whose first pass leaves no abbreviation to expand.
C27_Idempotent ==
    (result.op = <<"normalize">> /\ Len(result.value) = 2
     /\ NoAbbreviation(result.value[1])) =>
        result.value[2] = result.value[1]

\* the line is a footnote content line
IsFootnoteLine(line) == \E f \in FootnoteLines : line = FootnoteLine(f)

\* offset in the text of the first character of line k
LineStart(lines, k) == Len(JoinLines(SubSeq(lines, 1, k - 1) \o <<<<>>>>))

\* index of the first footnote content line (0 if none)
FirstFootnoteLine(lines) ==
    LET c == {k \in DOMAIN lines : IsFootnoteLine(lines[k])}
    IN  IF c = {} THEN 0 ELSE SetMin(c)

\* the last line of the content that starts with line k: the lines after it
\* up to the next content line, empty line or the end
ContentLast(lines, k) ==
    SetMax({e \in k..Len(lines) :
               \A j \in (k + 1)..e : lines[j] # <<>> /\ ~IsFootnoteLine(lines[j])})

\* marker -> trimmed content, a later line for a marker replacing an earlier
TableOf(lines) ==
    LET c == {k \in DOMAIN lines : IsFootnoteLine(lines[k])}
        MarkerAt(k) == (CHOOSE f \in FootnoteLines : lines[k] = FootnoteLine(f))[1]
        ContentAt(k) ==
            LET whole == JoinLines(SubSeq(lines, k, ContentLast(lines, k)))
            IN  Trim(SubSeq(whole, Len(MarkerAt(k)) + 2, Len(whole)))
    IN  [m \in {MarkerAt(k) : k \in c} |->
            ContentAt(SetMax({k \in c : MarkerAt(k) = m}))]

\* C28: detectFootnotes cuts the footnote section off exactly when the first
\* footnote content line starts after 60% of the length of the text: then
\* cleanText is the text before that line (up to trailing white space) and
\* footnotes maps the marker of each content line to its trimmed content;
\* otherwise the text comes back whole with an empty map.
C28_SixtyPercent ==
    result.op = <<"extract">> =>
        LET first == FirstFootnoteLine(pieces)
        IN  IF first # 0 /\ 10 * LineStart(pieces, first) > 6 * Len(argument)
            THEN /\ Trim(result.value.cleanText) =
                        Trim(JoinLines(SubSeq(pieces, 1, first - 1)))
                 /\ result.value.footnotes = TableOf(pieces)
            ELSE result.value = [cleanText |-> argument, footnotes |-> EmptyMap]

\* a token with its marker read out from the table, or as it is
TokenInlined(token, footnotes) ==
    token.before
    \o (IF token.markerText # <<>> /\ token.marker \in DOMAIN footnotes
        THEN <<".", " ", "F", "o", "o", "t", "n", "o", "t", "e", " ">>
             \o token.marker \o <<":", " ">> \o footnotes[token.marker]
             \o <<".", " ">>
        ELSE token.markerText)
    \o token.after

\* C29: insertFootnoteReadings replaces every marker whose token is a key of
\* the table by ". Footnote <marker>: <content>. ", leaves every other marker
\* as it is, and returns the text unchanged for an empty table.
C29_InlineMarkers ==
    result.op[1] = "inline" =>
        LET footnotes == result.op[2]
        IN  /\ result.value =
                   JoinWithSpace([k \in DOMAIN pieces |->
                                     TokenInlined(pieces[k], footnotes)])
            /\ DOMAIN footnotes = {} => result.value = argument

\* a superscript marker of the table and a bracketed marker outside it: the
\* first is read out, the second stays
C29_Witness ==
    /\ result.op[1] = "inline"
    /\ DOMAIN result.op[2] = {<<"1">>}
    /\ argument = <<"SUP1", " ", "[", "2", "]">>
    /\ result.value =
           <<".", " ", "F", "o", "o", "t", "n", "o", "t", "e", " ", "1", ":",
             " ", "x", ".", " ", " ", "[", "2", "]">>

\* C30: the chunks of convertLongText (called for a text above the limit)
\* hold every sentence of the text exactly once and in order, the last
\* running chunk included; none is empty; none is longer than the limit
\* unless it is one sentence.
C30_LengthPolicy ==
    (result.op = <<"long">> /\ Len(argument) > CharacterLimit) =>
        LET chunks == result.value
        IN  /\ Flatten(chunks) = argument
            /\ \A k \in DOMAIN chunks : chunks[k] # <<>>
            /\ \A k \in DOMAIN chunks :
                   Len(chunks[k]) > CharacterLimit =>
                       \E j \in DOMAIN pieces : Trim(chunks[k]) = pieces[j]

\* C32: speakNextChunk called with currentChunkIndex >= textChunks.length
\* (as the inter-chunk timer does when it fires after the chunks are gone)
\* changes nothing: no utterance, no handler, no timer, and the script's
\* variables as they were.
C32_PlayFromAtEnd ==
    currentChunkIndex >= Len(textChunks) =>
        /\ speakNextChunk(Cur, "timer", -1) = Cur
        /\ timers # <<>> =>
               speakNextChunk([Cur EXCEPT !.timers = Tail(timers)], "timer",
                              timers[1].after)
                   = [Cur EXCEPT !.timers = Tail(timers)]

\* a timer armed after chunk 0 is still pending when the chunks are gone
C32_Witness ==
    /\ timers # <<>>
    /\ timers[1].after = 0
    /\ textChunks = <<>>
    /\ currentChunkIndex >= Len(textChunks)
    /\ speakNextChunk([Cur EXCEPT !.timers = Tail(timers)], "timer", 0).queue
           = queue

\* the state S after a step seek from Cur to the chunk at index target: what
\* was in flight is cancelled and the one utterance queued is for that chunk
SteppedTo(S, target) ==
    /\ S.currentChunkIndex = target
    /\ S.cancelled = CountCancelled(cancelled, queue)
    /\ Len(S.queue) = 1
    /\ S.queue[1].chunk = target
    /\ S.queue[1].text = ChunkAt(textChunks, target)
    /\ ~S.queue[1].started

\* C33: with chunks loaded, seekNextChunk at an index below the last chunk
\* moves the index up by exactly one and seekPreviousChunk at an index above
\* 0 (the index past the last chunk included) moves it down by exactly one;
\* both cancel what is in flight and queue exactly one utterance, for the
\* chunk at the new index.
C33_StepSeeksMoveByOne ==
    Len(textChunks) > 0 =>
        /\ currentChunkIndex < Len(textChunks) - 1 =>
               SteppedTo(seekNextChunk(Cur), currentChunkIndex + 1)
        /\ currentChunkIndex > 0 =>
               SteppedTo(seekPreviousChunk(Cur), currentChunkIndex - 1)

\* the amounts the relative seeks are tried with, of either sign
Deltas == {-50, -10, 0, 10, 50, 150}

\* the percentage a relative seek of delta aims at: the current percentage
\* plus delta, clamped to [0, 100]
ClampedPercentage(delta) == Max(0, Min(100, getCurrentPercentage(Cur) + delta))

\* C34: seekForward(d) and seekBackward(d) seek to the current percentage
\* plus d, respectively minus d, clamped to [0, 100], whatever d is; they
\* are rejected (change nothing) exactly when no chunks are loaded.
C34_RelativeSeekTotal ==
    \A d \in Deltas :
        /\ seekForward(Cur, d) = seekToPercentage(Cur, ClampedPercentage(d))
        /\ seekBackward(Cur, d) = seekToPercentage(Cur, ClampedPercentage(-d))
        /\ (seekForward(Cur, d) = Cur) <=> (Len(textChunks) = 0)
        /\ (seekBackward(Cur, d) = Cur) <=> (Len(textChunks) = 0)

\* C38: with the index on a chunk (currentChunkIndex < textChunks.length),
\* seeking to the percentage getCurrentPosition() reports, as the seek
\* slider does when it is released where updateProgressDisplay put it, leaves
\* currentChunkIndex where it was.
C38_SeekToOwnPercentage ==
    (Len(textChunks) > 0 /\ currentChunkIndex < Len(textChunks)) =>
        seekToPercentage(Cur, getCurrentPosition.percentage).currentChunkIndex
            = currentChunkIndex

\* C39: with chunks loaded and 0 <= currentChunkIndex <= textChunks.length,
\* seekForward(d) with d >= 0 never lowers currentChunkIndex and
\* seekBackward(d) with d >= 0 never raises it.
C39_RelativeSeekMonotone ==
    (Len(textChunks) > 0 /\ currentChunkIndex \in 0..Len(textChunks)) =>
        \A d \in {a \in Deltas : a >= 0} :
            /\ seekForward(Cur, d).currentChunkIndex >= currentChunkIndex
            /\ seekBackward(Cur, d).currentChunkIndex <= currentChunkIndex

\* C35: while the utterance a seek has queued is in the engine, a step that
\* delivers the event of an utterance the seek cancelled leaves
\* currentChunkIndex where the seek put it, arms no timer and queues no
\* utterance.
C35_PreemptedEndIgnored ==
    [][((\E k \in DOMAIN queue : queue[k].cause = "seek")
          /\ \E p \in PromiseStates : cancelled'[p] < cancelled[p])
        => /\ currentChunkIndex' = currentChunkIndex
           /\ timers' = timers
           /\ queue' = queue]_vars

\* C36: from a state with no chunks, index 0 and an empty engine queue, as
\* stopSpeech leaves it, every step that does not load chunks leads to such
\* a state: no event of an earlier utterance and no timer moves the index,
\* loads chunks or queues an utterance.
C36_IdleStable ==
    [][(textChunks = <<>> /\ currentChunkIndex = 0 /\ queue = <<>>
          /\ textChunks' = <<>>)
        => (currentChunkIndex' = 0 /\ queue' = <<>>)]_vars

\* C37: while chunks are left to speak and an utterance is in the engine or
\* the inter-chunk timer is armed, pauseSpeech leaves the engine paused, so
\* that no further chunk starts until resumeSpeech.
C37_PauseNeverLost ==
    (currentChunkIndex < Len(textChunks) /\ (queue # <<>> \/ timers # <<>>))
        => pauseSpeech(Cur).enginePaused

\* every chunk has been spoken and nothing is outstanding
Finished ==
    /\ currentChunkIndex = Len(textChunks)
    /\ queue = <<>>
    /\ timers = <<>>

\* a step of playback in order: the index moves only up by one, when the
\* utterance for the chunk at the index completes, and an utterance is
\* queued only for the chunk at the index, with nothing else in the engine
InOrderStep ==
    /\ currentChunkIndex' # currentChunkIndex =>
           /\ EngineSpeaking(Cur)
           /\ queue[1].chunk = currentChunkIndex
           /\ currentChunkIndex' = currentChunkIndex + 1
           /\ queue' = Tail(queue)
    /\ Len(queue') > Len(queue) =>
           /\ queue = <<>>
           /\ queue'[1].chunk = currentChunkIndex

\* C31: after a convert that loaded chunks, with no user operation and no
\* engine error afterwards and engine events and timers delivered fairly,
\* playback reaches the state with currentChunkIndex = textChunks.length,
\* nothing in the engine and no timer armed, and on the way speaks the
\* chunks one at a time in order, each once.
C31_PlaysToEnd ==
    /\ (Converted /\ available) ~> Finished
    /\ [][(Converted /\ available /\ result' = result) => InOrderStep]_vars

====
